---------------------------- MODULE Spec2Model ----------------------------
(***************************************************************************)
(* A model of package localize (src/localize.go): the Map container, the   *)
(* validation of its global JavaScript variable name, and ReflectTarget,   *)
(* the recursive translation of Go data to JavaScript text.                *)
(*                                                                         *)
(* Go strings and the emitted text are TLA+ strings; a character is a      *)
(* string of length one.                                                   *)
(***************************************************************************)
EXTENDS Integers, Sequences, FiniteSets, TLC

VARIABLES
    l,      \* the *Map the program holds: [nil, data, globalName]
    call,   \* the last call made: [op, name, key, val, data]
    ret,    \* what that call returned: [err, text, panic, data]
    stack,  \* the frames of a JS call that runs step by step, innermost first
    buf     \* the bytes.Buffer of that call

vars == <<l, call, ret, stack, buf>>

---------------------------------------------------------------------------
(* Characters *)

\* The printable ASCII characters in code point order, in two runs: 32
\* (space) to 95 (_), and 97 (a) to 126 (~). Code point 96, the grave
\* accent, cannot be written in a TLA+ string and is left out of the model.
PrintableLow ==
    " !\"#$%&'()*+,-./0123456789:;<=>?@ABCDEFGHIJKLMNOPQRSTUVWXYZ[\\]^_"

PrintableHigh == "abcdefghijklmnopqrstuvwxyz{|}~"

Printable == PrintableLow \o PrintableHigh

CharAt(s, i) == SubSeq(s, i, i)

CharsOf(s) == {CharAt(s, i) : i \in 1..Len(s)}

\* The code point of each printable character.
OrdTable ==
    [c \in CharsOf(Printable) |->
        IF c \in CharsOf(PrintableLow)
        THEN 31 + (CHOOSE i \in 1..Len(PrintableLow) : CharAt(PrintableLow, i) = c)
        ELSE 96 + (CHOOSE i \in 1..Len(PrintableHigh) : CharAt(PrintableHigh, i) = c)]

Ord(c) == OrdTable[c]

\* A regular expression's character range lo-hi.
InRange(c, lo, hi) == Ord(lo) <= Ord(c) /\ Ord(c) <= Ord(hi)

---------------------------------------------------------------------------
(* Errors *)

NoErr == "nil"
ErrReservedKeyword == "Reserved variable name provided"
ErrInvalidVariableName == "Invalid variable name provided"
ErrInvalidKey == "Invalid key name provided"
ErrInvalidData == "Invalid data provided"
ErrNilMap == "Nil data map field"
ErrFailedAdd == "Failed to add element"
ErrFailedDelete == "Failed to delete element with key"

---------------------------------------------------------------------------
(* The name's validation *)

\* The class [a-zA-z_\$] of JSVariableRegex, range by range as written.
VarFirstClass(c) ==
    \/ InRange(c, "a", "z")
    \/ InRange(c, "A", "z")
    \/ c = "_"
    \/ c = "$"

\* The class [a-zA-z_\$0-9] of JSVariableRegex.
VarRestClass(c) ==
    \/ VarFirstClass(c)
    \/ InRange(c, "0", "9")

\* JSVariableRegex.Match: ^[a-zA-z_\$][a-zA-z_\$0-9]*$
JSVariableRegex(name) ==
    /\ Len(name) >= 1
    /\ VarFirstClass(CharAt(name, 1))
    /\ \A i \in 2..Len(name) : VarRestClass(CharAt(name, i))

\* The alternatives of JSReservedRegex, in the order written.
JSReservedAlternatives ==
    << "break", "case", "catch", "class", "const", "continue", "debugger",
       "default", "delete", "do", "else", "export", "extends", "finally",
       "for", "function", "if", "import", "in", "instanceof", "new",
       "return", "super", "switch", "this", "throw", "try", "typeof", "var",
       "void", "while", "with", "yield", "enum", "await", "implements",
       "interface", "package", "private", "protected", "public", "static" >>

\* A mutation of JSReservedRegex: the closing anchor $ is lost, so a name
\* that only begins with a reserved word matches too.
JSReservedRegexUnanchored(name) ==
    \E i \in 1..Len(JSReservedAlternatives) :
        LET w == JSReservedAlternatives[i]
        IN  Len(name) >= Len(w) /\ SubSeq(name, 1, Len(w)) = w

\* JSReservedRegex.Match: ^(break|case|...|static)$ matches the whole name
\* against one of the alternatives.
JSReservedRegex(name) ==
    \E i \in 1..Len(JSReservedAlternatives) : name = JSReservedAlternatives[i]

\* The error SetGlobalName returns for name.
SetGlobalNameErr(name) ==
    IF ~JSVariableRegex(name) THEN ErrInvalidVariableName
    ELSE IF JSReservedRegex(name) THEN ErrReservedKeyword
    ELSE NoErr

---------------------------------------------------------------------------
(* Values *)

\* A reflect.Value is [kind, v]: its Kind().String() and its payload. The
\* zero Value (what Elem() gives for a nil interface) has kind "invalid".
Invalid == [kind |-> "invalid", v |-> 0]

\* The Data type, map[string]interface{}: nil, or a map from keys to the
\* dynamic values held by the interfaces (Invalid for a nil interface).
NilData == [nil |-> TRUE, m |-> <<>>]
MkData(m) == [nil |-> FALSE, m |-> m]
EmptyData == MkData(<<>>)

\* The *Map: nil, or a Map with its two fields.
NilMap == [nil |-> TRUE, data |-> NilData, globalName |-> ""]

IntV(n) == [kind |-> "int", v |-> n]
StrV(s) == [kind |-> "string", v |-> s]
BoolV(b) == [kind |-> "bool", v |-> b]

\* A finite float64 by its shortest decimal digits d (no leading or trailing
\* zero, "" for zero) and the position dp of its decimal point: 0.d * 10^dp.
FloatV(neg, d, dp) == [kind |-> "float64", v |-> [neg |-> neg, d |-> d, dp |-> dp]]

\* A value of a kind ReflectTarget has no case for ("int64", "ptr", ...).
OtherV(kind) == [kind |-> kind, v |-> 0]

\* An interface holding x, as Index, MapIndex and Field give it for an
\* element, entry or field of static type interface{}.
IfaceV(x) == [kind |-> "interface", v |-> x]
NilIface == IfaceV(Invalid)

\* A slice by its elements, a map by its entries (string keys), a struct by
\* its fields [name, val] in declaration order.
SliceV(elems) == [kind |-> "slice", v |-> elems]
MapV(m) == [kind |-> "map", v |-> m]
StructV(fields) == [kind |-> "struct", v |-> fields]
Fld(name, val) == [name |-> name, val |-> val]

\* reflect.ValueOf(data) for a non-nil Data: every entry is an interface.
ValueOfData(data) == MapV([k \in DOMAIN data.m |-> IfaceV(data.m[k])])

---------------------------------------------------------------------------
(* Formatting with %v *)

Digit(n) == CharAt("0123456789", n + 1)

RECURSIVE NatText(_)
NatText(n) == IF n < 10 THEN Digit(n) ELSE NatText(n \div 10) \o Digit(n % 10)

\* fmt.Sprintf("%v", target.Int())
FormatInt(n) == IF n < 0 THEN "-" \o NatText(-n) ELSE NatText(n)

\* fmt.Sprintf("%v", target.Bool())
FormatBool(b) == IF b THEN "true" ELSE "false"

RECURSIVE Zeros(_)
Zeros(n) == IF n <= 0 THEN "" ELSE "0" \o Zeros(n - 1)

\* strconv's %e for the digits d with all of them kept: d.ddde+xx
FormatFloatE(f) ==
    LET nd    == Len(f.d)
        first == IF nd = 0 THEN "0" ELSE CharAt(f.d, 1)
        rest  == IF nd > 1 THEN "." \o SubSeq(f.d, 2, nd) ELSE ""
        exp   == IF nd = 0 THEN 0 ELSE f.dp - 1
        mag   == IF exp < 0 THEN -exp ELSE exp
    IN  first \o rest \o "e" \o (IF exp < 0 THEN "-" ELSE "+")
        \o (IF mag < 10 THEN "0" ELSE "") \o NatText(mag)

\* strconv's %f for the digits d with max(nd - dp, 0) decimals.
FormatFloatF(f) ==
    LET nd   == Len(f.d)
        prec == IF nd - f.dp > 0 THEN nd - f.dp ELSE 0
        m    == IF nd < f.dp THEN nd ELSE f.dp
        int  == IF f.dp > 0 THEN SubSeq(f.d, 1, m) \o Zeros(f.dp - m) ELSE "0"
        frac == IF prec > 0
                THEN "." \o Zeros(-f.dp) \o SubSeq(f.d, (IF f.dp > 0 THEN f.dp ELSE 0) + 1, nd)
                ELSE ""
    IN  int \o frac

\* fmt.Sprintf("%v", target.Float()): %g with the shortest digits, which
\* takes the exponent form when the exponent is below -4 or at least 6.
FormatFloat(f) ==
    LET exp == f.dp - 1
    IN  (IF f.neg THEN "-" ELSE "")
        \o (IF exp < -4 \/ exp >= 6 THEN FormatFloatE(f) ELSE FormatFloatF(f))

---------------------------------------------------------------------------
(* ReflectTarget *)

\* What a call has written to the buffer, and whether it panicked there.
Out(text) == [text |-> text, panic |-> FALSE]
PanicOut(text) == [text |-> text, panic |-> TRUE]

\* as followed by bs: a panic in as ends the call.
Then(as, bs) ==
    {IF a.panic THEN a ELSE [text |-> a.text \o b.text, panic |-> b.panic] :
        a \in as, b \in bs}

\* A mutation of the loop over MapKeys: a key may come up more than once.
KeyOrdersWithRepeats(keys) == [1..Cardinality(keys) -> keys]

\* The orders MapKeys may give the keys in: every one.
KeyOrders(keys) ==
    LET n == Cardinality(keys)
    IN  {p \in [1..n -> keys] : \A i, j \in 1..n : p[i] = p[j] => i = j}

\* A mutation of the wrapper's choice: every wrapped entry opens a brace.
EntryOpenBrace(f) == "{"

\* The wrapper of a map entry f whose kind is "map" or "interface".
EntryOpen(f) ==
    IF f.kind = "interface" /\ f.v.kind # "map" THEN "[" ELSE "{"

EntryClose(f) ==
    IF f.kind = "interface" /\ f.v.kind # "map" THEN "]" ELSE "}"

\* case "int"
ReflectInt(n) == FormatInt(n) \o ","

\* A mutation of case "string": the string is quoted as %q quotes it, its
\* double quotes and backslashes escaped.
RECURSIVE EscapeText(_)
EscapeText(str) ==
    IF str = "" THEN ""
    ELSE LET c == CharAt(str, 1)
         IN  (IF c = "\"" \/ c = "\\" THEN "\\" \o c ELSE c) \o EscapeText(Tail(str))

ReflectStringEscaped(str) == "\"" \o EscapeText(str) \o "\","

\* case "string"
ReflectString(str) == "\"" \o str \o "\","

\* case "bool"
ReflectBool(b) == FormatBool(b) \o ","

\* case "float64"
ReflectFloat(f) == FormatFloat(f) \o ","

RECURSIVE ReflectTarget(_), ReflectFields(_, _), ReflectEntries(_, _, _),
          ReflectEntry(_, _), ReflectElems(_, _)

\* A mutation of case "slice": the loop starts at the second element.
RECURSIVE ReflectElemsSkipFirst(_, _)
ReflectElemsSkipFirst(elems, i) ==
    IF i > Len(elems) THEN {Out("")}
    ELSE IF i = 1 THEN ReflectElemsSkipFirst(elems, 2)
    ELSE Then(ReflectTarget(elems[i]), ReflectElemsSkipFirst(elems, i + 1))

\* A mutation of case "struct": a field is wrapped as a map entry is, by
\* the kind of its value.
RECURSIVE ReflectFieldsByKind(_, _)

ReflectFieldsByKind(fields, i) ==
    IF i > Len(fields) THEN {Out("")}
    ELSE LET brace == fields[i].val.kind \in {"map", "struct"}
         IN  Then(Then(Then({Out("\"" \o fields[i].name \o "\": " \o
                                 (IF brace THEN "{" ELSE "[") \o "\n")},
                            ReflectTarget(fields[i].val)),
                       {Out((IF brace THEN "}" ELSE "]") \o ",\n")}),
                  ReflectFieldsByKind(fields, i + 1))

\* case "struct": the fields from the i-th on.
ReflectFields(fields, i) ==
    IF i > Len(fields) THEN {Out("")}
    ELSE Then(Then(Then({Out("\"" \o fields[i].name \o "\": {\n")},
                        ReflectTarget(fields[i].val)),
                   {Out("},\n")}),
              ReflectFields(fields, i + 1))

\* case "map": one entry, the body of the loop over the keys.
ReflectEntry(key, f) ==
    IF f.kind = "map" \/ f.kind = "interface"
    THEN IF f.kind = "interface" /\ f.v.kind = "invalid"
         THEN {PanicOut("")}    \* f.Elem().Type() of a nil interface
         ELSE Then(Then({Out("\"" \o key \o "\": " \o EntryOpen(f) \o "\n")},
                        ReflectTarget(f)),
                   {Out("\n" \o EntryClose(f) \o ",\n")})
    ELSE Then(Then({Out("\"" \o key \o "\":")}, ReflectTarget(f)), {Out("\n")})

\* case "map": the entries in the order keys, from the i-th on.
ReflectEntries(m, keys, i) ==
    IF i > Len(keys) THEN {Out("")}
    ELSE Then(ReflectEntry(keys[i], m[keys[i]]), ReflectEntries(m, keys, i + 1))

\* case "slice": the elements from the i-th on.
ReflectElems(elems, i) ==
    IF i > Len(elems) THEN {Out("")}
    ELSE Then(ReflectTarget(elems[i]), ReflectElems(elems, i + 1))

\* ReflectTarget(target, buf): every outcome the call can have, one for
\* each order the maps inside target can be iterated in.
ReflectTarget(target) ==
    CASE target.kind = "invalid" -> {PanicOut("")}   \* target.Type()
      [] target.kind = "interface" -> ReflectTarget(target.v)
      [] target.kind = "struct" -> ReflectFields(target.v, 1)
      [] target.kind = "map" ->
            UNION {ReflectEntries(target.v, keys, 1) :
                        keys \in KeyOrders(DOMAIN target.v)}
      [] target.kind = "slice" ->
            Then(Then({Out("[")}, ReflectElems(target.v, 1)), {Out("],\n")})
      [] target.kind = "int" -> {Out(ReflectInt(target.v))}
      [] target.kind = "string" -> {Out(ReflectString(target.v))}
      [] target.kind = "bool" -> {Out(ReflectBool(target.v))}
      [] target.kind = "float64" -> {Out(ReflectFloat(target.v))}
      [] OTHER -> {Out("")}

\* A mutation of Map.JS: the outer wrapper is a bracket pair.
JSOutcomesBracketed(m) ==
    Then(Then({Out(m.globalName \o " = [\n")}, ReflectTarget(ValueOfData(m.data))),
         {Out("\n];")})

\* Map.JS on the Map m: every outcome of the call.
JSOutcomes(m) ==
    Then(Then({Out(m.globalName \o " = {\n")}, ReflectTarget(ValueOfData(m.data))),
         {Out("\n};")})

---------------------------------------------------------------------------
(* Calls and returns *)

Call(op, name, key, val, data) ==
    [op |-> op, name |-> name, key |-> key, val |-> val, data |-> data]

Ret(err, text, panic, data) ==
    [err |-> err, text |-> text, panic |-> panic, data |-> data]

RetErr(err) == Ret(err, "", FALSE, NilData)

---------------------------------------------------------------------------
(* The Map's operations *)

\* A mutation of SetGlobalName: the name is stored before it is validated.
SetGlobalNameEager(m, name) == [m EXCEPT !.globalName = name]

\* SetGlobalName on the Map m: the Map after the call.
SetGlobalNameMap(m, name) ==
    IF SetGlobalNameErr(name) = NoErr
    THEN [m EXCEPT !.globalName = name]
    ELSE m

\* NewMap(name, data): the *Map returned (nil on error).
NewMapResult(name, data) ==
    LET d  == IF data.nil THEN EmptyData ELSE data
        m0 == [nil |-> FALSE, data |-> d, globalName |-> ""]
    IN  IF SetGlobalNameErr(name) # NoErr THEN NilMap
        ELSE SetGlobalNameMap(m0, name)

SetGlobalNameOver(names) ==
    /\ stack = <<>>
    /\ ~l.nil
    /\ \E name \in names :
        /\ l' = SetGlobalNameMap(l, name)
        /\ call' = Call("SetGlobalName", name, "", Invalid, NilData)
        /\ ret' = RetErr(SetGlobalNameErr(name))
    /\ UNCHANGED <<stack, buf>>

GetGlobalName ==
    /\ stack = <<>>
    /\ ~l.nil
    /\ call' = Call("GetGlobalName", "", "", Invalid, NilData)
    /\ ret' = Ret(NoErr, l.globalName, FALSE, NilData)
    /\ UNCHANGED l
    /\ UNCHANGED <<stack, buf>>

\* A mutation of Add: the nil value is looked for before the empty key.
AddErrDataFirst(m, key, val) ==
    IF m.data.nil THEN ErrNilMap
    ELSE IF val.kind = "invalid" THEN ErrInvalidData
    ELSE IF key = "" THEN ErrInvalidKey
    ELSE NoErr

\* Add on the Map m: the error returned.
AddErr(m, key, val) ==
    IF m.data.nil THEN ErrNilMap
    ELSE IF key = "" THEN ErrInvalidKey
    ELSE IF val.kind = "invalid" THEN ErrInvalidData
    ELSE LET stored == (key :> val) @@ m.data.m
         IN  IF key \notin DOMAIN stored \/ stored[key].kind = "invalid"
             THEN ErrFailedAdd
             ELSE NoErr

\* A mutation of Add: the map is made anew around the added entry.
AddMapAnew(m, key, val) ==
    IF m.data.nil \/ key = "" \/ val.kind = "invalid" THEN m
    ELSE [m EXCEPT !.data = MkData(key :> val)]

\* Add on the Map m: the Map after the call.
AddMap(m, key, val) ==
    IF m.data.nil \/ key = "" \/ val.kind = "invalid" THEN m
    ELSE [m EXCEPT !.data = MkData((key :> val) @@ m.data.m)]

\* Delete on the Map m: the error returned.
DeleteErr(m, key) ==
    IF m.data.nil THEN ErrNilMap
    ELSE IF key = "" THEN ErrInvalidKey
    ELSE LET left == [k \in DOMAIN m.data.m \ {key} |-> m.data.m[k]]
         IN  IF key \in DOMAIN left THEN ErrFailedDelete ELSE NoErr

\* Delete on the Map m: the Map after the call.
DeleteMap(m, key) ==
    IF m.data.nil \/ key = "" THEN m
    ELSE [m EXCEPT !.data = MkData([k \in DOMAIN m.data.m \ {key} |-> m.data.m[k]])]

\* The most entries the model lets the data hold.
MaxKeys == 2

Add(keys, vals) ==
    /\ stack = <<>>
    /\ ~l.nil
    /\ \E key \in keys, val \in vals :
        /\ Cardinality(DOMAIN AddMap(l, key, val).data.m) <= MaxKeys
        /\ l' = AddMap(l, key, val)
        /\ call' = Call("Add", "", key, val, NilData)
        /\ ret' = RetErr(AddErr(l, key, val))
    /\ UNCHANGED <<stack, buf>>

Delete(keys) ==
    /\ stack = <<>>
    /\ ~l.nil
    /\ \E key \in keys :
        /\ l' = DeleteMap(l, key)
        /\ call' = Call("Delete", "", key, Invalid, NilData)
        /\ ret' = RetErr(DeleteErr(l, key))
    /\ UNCHANGED <<stack, buf>>

GetData ==
    /\ stack = <<>>
    /\ ~l.nil
    /\ call' = Call("GetData", "", "", Invalid, NilData)
    /\ ret' = Ret(NoErr, "", FALSE, l.data)
    /\ UNCHANGED l
    /\ UNCHANGED <<stack, buf>>

\* A mutation of JS: the entries are consumed as they are rendered.
JSConsuming ==
    /\ stack = <<>>
    /\ ~l.nil
    /\ \E o \in JSOutcomes(l) :
        /\ call' = Call("JS", "", "", Invalid, NilData)
        /\ ret' = Ret(NoErr, o.text, o.panic, NilData)
    /\ l' = [l EXCEPT !.data = EmptyData]
    /\ UNCHANGED <<stack, buf>>

JS ==
    /\ stack = <<>>
    /\ ~l.nil
    /\ \E o \in JSOutcomes(l) :
        /\ call' = Call("JS", "", "", Invalid, NilData)
        /\ ret' = Ret(NoErr, o.text, o.panic, NilData)
    /\ UNCHANGED l
    /\ UNCHANGED <<stack, buf>>

---------------------------------------------------------------------------
(* Inputs of the container specification *)

\* The data of the tests (src/localize_test.go); the inner sequences of
\* the multi-dimensional case are shortened to two elements each.
IntCaseData == MkData("int" :> IntV(1954))

IntArrayValue == SliceV(<<IntV(1), IntV(2), IntV(3), IntV(4), IntV(5)>>)

MultiArrayValue ==
    SliceV(<< SliceV(<<IntV(6), IntV(7)>>), SliceV(<<IntV(11), IntV(12)>>) >>)

AssocArrayValue == MapV(("baz" :> StrV("fubar")) @@ ("foo" :> StrV("bar")))

PageValue == StructV(<<Fld("Title", StrV("home")), Fld("Views", IntV(3))>>)

\* Values given to Add: nil, the supported kinds, a kind with no case, and
\* a sequence of interfaces holding nil.
AddValues ==
    { Invalid, IntV(1954), StrV("bar"), IntArrayValue, AssocArrayValue,
      PageValue, OtherV("int64"), SliceV(<<NilIface>>) }

AddKeys == {"", "a", "b", "c"}

\* Data given to NewMap: nil, empty, and maps holding a nil.
DataInputs ==
    { NilData, EmptyData, IntCaseData,
      MkData("assocArray" :> AssocArrayValue),
      MkData("a" :> Invalid),
      MkData(("a" :> SliceV(<<IntV(1), NilIface>>)) @@ ("b" :> IntV(2))) }

ConstructNames == {"x", "", "var", "^"}

SetNames == {"", "b", "do", "^a"}

Init ==
    \E name \in ConstructNames, data \in DataInputs :
        /\ l = NewMapResult(name, data)
        /\ call = Call("NewMap", name, "", Invalid, data)
        /\ ret = RetErr(SetGlobalNameErr(name))
        /\ stack = <<>>
        /\ buf = ""

Next ==
    \/ SetGlobalNameOver(SetNames)
    \/ GetGlobalName
    \/ Add(AddKeys, AddValues)
    \/ Delete(AddKeys)
    \/ GetData
    \/ JS

Spec == Init /\ [][Next]_vars

---------------------------------------------------------------------------
(* ReflectTarget called on a value of its own *)

\* The deepest nesting of the values ReflectTarget is given.
MaxDepth == 2

Scalars ==
    { IntV(0), IntV(7), IntV(-12), IntV(1954), IntV(1000000),
      StrV(""), StrV("bar"), StrV("a\"b"), StrV("back\\slash"),
      StrV("line\nbreak"), StrV("x,"),
      BoolV(TRUE), BoolV(FALSE),
      FloatV(FALSE, "", 0), FloatV(FALSE, "15", 1), FloatV(TRUE, "25", 0),
      FloatV(FALSE, "1", 6), FloatV(FALSE, "1", 7), FloatV(FALSE, "123", -4),
      FloatV(TRUE, "12345", 3) }

Unsupported ==
    { OtherV("int64"), OtherV("uint8"), OtherV("float32"), OtherV("ptr"),
      OtherV("array") }

Leaves == {IntV(1), StrV("bar"), OtherV("int64")}

\* Values nested n deep, one child each: what the composites are made of.
RECURSIVE Core(_)
Core(n) ==
    IF n <= 0 THEN Leaves
    ELSE LET inner == Core(n - 1)
         IN  inner \cup {SliceV(<<a>>) : a \in inner}
                   \cup {MapV("foo" :> a) : a \in inner}

\* Elements, entries and fields: a value held directly, or an interface
\* holding it or holding nil.
Elements(n) == Core(n) \cup {IfaceV(a) : a \in Core(n)} \cup {NilIface}

\* Two elements a slice or a map can hold together: of one static type.
SameType(a, b) == a.kind = b.kind

SameTypePairs(elems) == {p \in elems \X elems : SameType(p[1], p[2])}

Composites(elems) ==
    {SliceV(<<>>), MapV(<<>>), StructV(<<>>)}
    \cup {SliceV(<<a>>) : a \in elems}
    \cup {SliceV(<<p[1], p[2]>>) : p \in SameTypePairs(elems)}
    \cup {MapV(k :> a) : k \in {"foo", "baz"}, a \in elems}
    \cup {MapV(("baz" :> p[1]) @@ ("foo" :> p[2])) : p \in SameTypePairs(elems)}
    \cup {StructV(<<Fld("A", a)>>) : a \in elems}
    \cup {StructV(<<Fld("A", a), Fld("B", b)>>) : a \in elems, b \in elems}
    \cup {StructV(<<Fld("A", StructV(<<Fld("B", a)>>))>>) : a \in elems}

\* The values of the tests, as ReflectTarget meets them under a Data key.
Fixtures ==
    { IntArrayValue, MultiArrayValue, AssocArrayValue, PageValue,
      ValueOfData(IntCaseData),
      ValueOfData(MkData("intArray" :> IntArrayValue)),
      ValueOfData(MkData("arrayArray" :> MultiArrayValue)),
      ValueOfData(MkData("assocArray" :> AssocArrayValue)),
      ValueOfData(MkData(("motd" :> StrV("Hello")) @@
                         ("nonce" :> MapV("login" :> StrV("LaKJ"))))) }

TargetInputs ==
    Scalars \cup Unsupported \cup Fixtures \cup Composites(Elements(MaxDepth - 1))

\* The caller's ReflectTarget(target, buf) on an empty buffer.
ReflectTargetCall ==
    /\ stack = <<>>
    /\ call.op = "ValueOf"
    /\ \E o \in ReflectTarget(call.val) :
        /\ call' = [call EXCEPT !.op = "ReflectTarget"]
        /\ ret' = Ret(NoErr, o.text, o.panic, NilData)
    /\ UNCHANGED l
    /\ UNCHANGED <<stack, buf>>

InitReflect ==
    \E target \in TargetInputs :
        /\ l = NilMap
        /\ call = Call("ValueOf", "", "", target, NilData)
        /\ ret = RetErr(NoErr)
        /\ stack = <<>>
        /\ buf = ""

NextReflect == ReflectTargetCall

SpecReflect == InitReflect /\ [][NextReflect]_vars

---------------------------------------------------------------------------
(* Inputs of the name specification *)

MaxNameLen == 2

\* The characters a name's later positions are drawn from: the ends of
\* every range of the two classes, their neighbours, and the letters of
\* the two-letter reserved words.
TailAlphabet ==
    CharsOf(" $*-/09:@AZ[^_az{~dDoifn")

RECURSIVE TailsUpTo(_)
TailsUpTo(n) ==
    IF n <= 0 THEN {""}
    ELSE LET shorter == TailsUpTo(n - 1)
         IN  shorter \cup {s \o c : s \in shorter, c \in TailAlphabet}

\* Names the tests and the documentation use, and their near misses.
FixedNames ==
    {JSReservedAlternatives[i] : i \in 1..Len(JSReservedAlternatives)}
    \cup {"Var", "VAR", "variable", "intCase", "_localData", "2var", "-var",
          "*var", "$_9", "dot", "publics", "a b"}

\* Every name up to MaxNameLen: any printable first character, then a tail.
BoundedNames ==
    {""} \cup {c \o t : c \in CharsOf(Printable), t \in TailsUpTo(MaxNameLen - 1)}

NameInputs == BoundedNames \cup FixedNames

\* Names for the calls that follow the construction.
RenameInputs == {"", "b", "do", "Do", "^a", "9", "$_9", "var", "a-b"}

InitNames ==
    \E name \in NameInputs :
        /\ l = NewMapResult(name, NilData)
        /\ call = Call("NewMap", name, "", Invalid, NilData)
        /\ ret = RetErr(SetGlobalNameErr(name))
        /\ stack = <<>>
        /\ buf = ""

NextNames ==
    \/ SetGlobalNameOver(RenameInputs)
    \/ GetGlobalName

SpecNames == InitNames /\ [][NextNames]_vars

---------------------------------------------------------------------------
(* The identifier grammar and the reserved words, as the specification     *)
(* states them                                                             *)

Letters == CharsOf("abcdefghijklmnopqrstuvwxyzABCDEFGHIJKLMNOPQRSTUVWXYZ")

Digits == CharsOf("0123456789")

\* At least one character; the first a letter, '_' or '$'; every later one
\* a letter, a digit, '_' or '$'.
MatchesGrammar(name) ==
    /\ Len(name) >= 1
    /\ CharAt(name, 1) \in Letters \cup {"_", "$"}
    /\ \A i \in 2..Len(name) : CharAt(name, i) \in Letters \cup Digits \cup {"_", "$"}

SpecReservedWords ==
    { "break", "case", "catch", "class", "const", "continue", "debugger",
      "default", "delete", "do", "else", "export", "extends", "finally",
      "for", "function", "if", "import", "in", "instanceof", "new", "return",
      "super", "switch", "this", "throw", "try", "typeof", "var", "void",
      "while", "with", "yield", "enum", "await", "implements", "interface",
      "package", "private", "protected", "public", "static" }

NamingCall == call.op \in {"NewMap", "SetGlobalName"}

---------------------------------------------------------------------------
(* Claims *)

\* C1: NewMap(name, data) and SetGlobalName(name) return
\* ErrInvalidVariableName for every printable name that does not match the
\* identifier grammar.
C1_InvalidNameRejected ==
    (NamingCall /\ ~MatchesGrammar(call.name))
        => ret.err = ErrInvalidVariableName

\* C2: among the names that match the grammar, NewMap and SetGlobalName
\* return ErrReservedKeyword exactly for the 42 reserved words, compared
\* whole and case-sensitively; every other such name is accepted with a nil
\* error and becomes the name GetGlobalName returns.
C2_ReservedExactly ==
    /\ Cardinality(SpecReservedWords) = 42
    /\ (NamingCall /\ MatchesGrammar(call.name)) =>
          /\ ret.err = ErrReservedKeyword <=> call.name \in SpecReservedWords
          /\ call.name \notin SpecReservedWords =>
                ret.err = NoErr /\ ~l.nil /\ l.globalName = call.name
    /\ call.op = "GetGlobalName" => ret.text = l.globalName /\ ret.err = NoErr

\* C2's case: a name that only contains a reserved word is accepted.
C2_Witness ==
    /\ call.op = "NewMap"
    /\ call.name = "variable"
    /\ ret.err = NoErr
    /\ l.globalName = "variable"

\* C3: the globalName of a Map always matches the identifier grammar and
\* is no reserved word, so that every text JS returns begins with such a
\* name.
C3_NameAlwaysValid ==
    /\ ~l.nil => MatchesGrammar(l.globalName) /\ l.globalName \notin SpecReservedWords
    /\ (call.op = "JS" /\ ~ret.panic) =>
          \E n \in 1..Len(ret.text) : MatchesGrammar(SubSeq(ret.text, 1, n))

\* C8: the serializer never fails: JS returns text, without a panic,
\* whatever the data holds, a nil under a key or inside a sequence included.
C8_NeverFails ==
    call.op = "JS" => ~ret.panic

\* C10: Add returns ErrInvalidKey for an empty key, ErrInvalidData for a nil
\* value with a non-empty key, and nil otherwise; Delete returns
\* ErrInvalidKey for an empty key and nil otherwise; neither returns
\* ErrNilMap on a Map that NewMap returned.
C10_ContainerGuards ==
    /\ call.op = "Add" =>
          ret.err = (IF call.key = "" THEN ErrInvalidKey
                     ELSE IF call.val = Invalid THEN ErrInvalidData
                     ELSE NoErr)
    /\ call.op = "Delete" =>
          ret.err = (IF call.key = "" THEN ErrInvalidKey ELSE NoErr)
    /\ ret.err # ErrNilMap
    /\ ~l.nil => ~l.data.nil

\* C10's case: Add with an empty key and a nil value reports the key.
C10_Witness ==
    /\ call.op = "Add"
    /\ call.key = ""
    /\ call.val = Invalid
    /\ ret.err = ErrInvalidKey

---------------------------------------------------------------------------
(* The kinds of value, as the specification names them *)

IsScalar(x) == x.kind \in {"int", "float64", "bool", "string"}
IsSequence(x) == x.kind = "slice"
IsMapping(x) == x.kind = "map"
IsReference(x) == x.kind = "interface"

\* The texts ReflectTarget can write for x when it returns.
Texts(x) == {o.text : o \in {r \in ReflectTarget(x) : ~r.panic}}

\* Every arrangement of the members of S in a row.
Arrangements(S) ==
    {p \in [1..Cardinality(S) -> S] : \A k \in S : \E i \in DOMAIN p : p[i] = k}

\* The texts made of one text of choices[i] for each i from the i-th on,
\* one after the other in the order of the indices.
RECURSIVE Joined(_, _)
Joined(choices, i) ==
    IF i > Len(choices) THEN {""}
    ELSE {a \o b : a \in choices[i], b \in Joined(choices, i + 1)}

ReflectCall == call.op = "ReflectTarget" /\ ~ret.panic

\* C5: a mapping entry (key, value) whose value is a Mapping or a Reference
\* is written as "key": open, a line break, the value, a line break, close
\* and ",\n", the pair being braces for a Mapping or a Reference to a
\* Mapping and brackets for a Reference to anything else; a Scalar or a
\* Sequence held directly is written as "key":value and a line break.
C5_EntryTexts(key, f) ==
    IF IsMapping(f) \/ IsReference(f)
    THEN LET brace == IsMapping(f) \/ IsMapping(f.v)
             open  == IF brace THEN "{" ELSE "["
             close == IF brace THEN "}" ELSE "]"
         IN  {"\"" \o key \o "\": " \o open \o "\n" \o r \o "\n" \o close \o ",\n" :
                r \in Texts(f)}
    ELSE {"\"" \o key \o "\":" \o r \o "\n" : r \in Texts(f)}

C5_Covered(f) == IsMapping(f) \/ IsReference(f) \/ IsScalar(f) \/ IsSequence(f)

C5_MappingEntryRule ==
    (/\ ReflectCall
     /\ IsMapping(call.val)
     /\ \A k \in DOMAIN call.val.v : C5_Covered(call.val.v[k]))
        => \E p \in Arrangements(DOMAIN call.val.v) :
              ret.text \in Joined([i \in DOMAIN p |-> C5_EntryTexts(p[i], call.val.v[p[i]])], 1)

\* C5's case: a Reference to a Scalar is wrapped in brackets.
C5_Witness ==
    /\ ReflectCall
    /\ call.val = ValueOfData(IntCaseData)
    /\ ret.text = "\"int\": [\n1954,\n],\n"

\* C6: a sequence is written as "[", its elements' texts in index order
\* with nothing between them, and "],\n"; an inner sequence is written whole
\* before the outer one closes, and an empty one is "[],\n".
C6_SequenceRule ==
    /\ (ReflectCall /\ IsSequence(call.val)) =>
          ret.text \in {"[" \o t \o "],\n" :
                          t \in Joined([i \in DOMAIN call.val.v |-> Texts(call.val.v[i])], 1)}
    /\ (ReflectCall /\ call.val = SliceV(<<>>)) => ret.text = "[],\n"
    /\ (ReflectCall /\ call.val = MultiArrayValue) =>
          ret.text = "[[6,7,],\n[11,12,],\n],\n"
    /\ (ReflectCall /\ call.val = ValueOfData(MkData("intArray" :> IntArrayValue))) =>
          ret.text = "\"intArray\": " \o "[\n[1,2,3,4,5,],\n\n],\n"

\* C6's case: the sequence [1,2,3,4,5] under a Data key.
C6_Witness ==
    /\ ReflectCall
    /\ call.val = ValueOfData(MkData("intArray" :> IntArrayValue))
    /\ ret.text = "\"intArray\": [\n[1,2,3,4,5,],\n\n],\n"

---------------------------------------------------------------------------
(* Reading a number back from its text *)

IsDigitText(t) == t # "" /\ \A i \in 1..Len(t) : CharAt(t, i) \in Digits

RECURSIVE NatOfText(_)
NatOfText(t) ==
    IF t = "" THEN 0
    ELSE 10 * NatOfText(SubSeq(t, 1, Len(t) - 1)) + (Ord(CharAt(t, Len(t))) - Ord("0"))

HasSign(t) == Len(t) >= 1 /\ CharAt(t, 1) = "-"

Unsigned(t) == IF HasSign(t) THEN Tail(t) ELSE t

\* Decimal text with no sign but '-', no leading zero and no "-0".
CanonicalInt(t) ==
    /\ IsDigitText(Unsigned(t))
    /\ Len(Unsigned(t)) > 1 => CharAt(Unsigned(t), 1) # "0"
    /\ HasSign(t) => Unsigned(t) # "0"

IntOfText(t) == IF HasSign(t) THEN -NatOfText(Unsigned(t)) ELSE NatOfText(t)

\* The place of the first c in t, 0 when there is none.
IndexOf(t, c) ==
    IF c \in CharsOf(t)
    THEN CHOOSE i \in 1..Len(t) : CharAt(t, i) = c /\ \A j \in 1..(i - 1) : CharAt(t, j) # c
    ELSE 0

RECURSIVE StripLeadingZeros(_)
StripLeadingZeros(t) ==
    IF t # "" /\ CharAt(t, 1) = "0" THEN StripLeadingZeros(Tail(t)) ELSE t

RECURSIVE StripTrailingZeros(_)
StripTrailingZeros(t) ==
    IF t # "" /\ CharAt(t, Len(t)) = "0"
    THEN StripTrailingZeros(SubSeq(t, 1, Len(t) - 1))
    ELSE t

\* The parts of a decimal text: mantissa digits before and after the
\* point, and the exponent after "e".
DecimalParts(t) ==
    LET u     == Unsigned(t)
        e     == IndexOf(u, "e")
        mant  == IF e = 0 THEN u ELSE SubSeq(u, 1, e - 1)
        expt  == IF e = 0 THEN "+00" ELSE SubSeq(u, e + 1, Len(u))
        dot   == IndexOf(mant, ".")
        whole == IF dot = 0 THEN mant ELSE SubSeq(mant, 1, dot - 1)
        frac  == IF dot = 0 THEN "" ELSE SubSeq(mant, dot + 1, Len(mant))
    IN  [whole |-> whole, frac |-> frac, dotted |-> dot # 0, expt |-> expt]

WellFormedDecimal(t) ==
    LET p == DecimalParts(t)
    IN  /\ IsDigitText(p.whole)
        /\ p.dotted => IsDigitText(p.frac)
        /\ Len(p.expt) >= 3
        /\ CharAt(p.expt, 1) \in {"+", "-"}
        /\ IsDigitText(Tail(p.expt))

\* The number a decimal text denotes, as shortest digits and point.
DecimalOfText(t) ==
    LET p      == DecimalParts(t)
        exp    == IF CharAt(p.expt, 1) = "-" THEN -NatOfText(Tail(p.expt))
                  ELSE NatOfText(Tail(p.expt))
        digits == p.whole \o p.frac
        lead   == StripLeadingZeros(digits)
        d      == StripTrailingZeros(lead)
    IN  [neg |-> HasSign(t),
         d   |-> d,
         dp  |-> IF d = "" THEN 0 ELSE Len(p.whole) + exp - (Len(digits) - Len(lead))]

EndsWithOneComma(t) ==
    /\ Len(t) >= 1
    /\ CharAt(t, Len(t)) = ","
    /\ Len(t) >= 2 => CharAt(t, Len(t) - 1) # ","

\* C9: an integer or a floating-point scalar is written as its decimal
\* text and ","; a boolean as "true," or "false,"; a string as itself
\* between double quotes and ",", nothing in it escaped; so every scalar's
\* text ends with exactly one ",".
C9_ScalarRule ==
    (call.op = "ReflectTarget" /\ IsScalar(call.val)) =>
        LET body == SubSeq(ret.text, 1, Len(ret.text) - 1)
            x    == call.val
        IN  /\ ~ret.panic
            /\ EndsWithOneComma(ret.text)
            /\ x.kind = "int" => CanonicalInt(body) /\ IntOfText(body) = x.v
            /\ x.kind = "float64" => WellFormedDecimal(body) /\ DecimalOfText(body) = x.v
            /\ x.kind = "bool" => body = (IF x.v THEN "true" ELSE "false")
            /\ x.kind = "string" => body = "\"" \o x.v \o "\""

\* C9's case: a string holding a double quote is copied as it is.
C9_Witness ==
    /\ call.op = "ReflectTarget"
    /\ call.val = StrV("a\"b")
    /\ ret.text = "\"a\"b\","

---------------------------------------------------------------------------
(* The envelope and the key-blocks of JS *)

JSCall == call.op = "JS" /\ ~ret.panic

Envelope(inner) == l.globalName \o " = {\n" \o inner \o "\n};"

RootKeys == DOMAIN l.data.m

\* The texts JS can write for the entry of key k of the root.
BlockTexts(k) ==
    {o.text : o \in {r \in ReflectEntry(k, IfaceV(l.data.m[k])) : ~r.panic}}

\* C4: JS returns GetGlobalName(), " = {\n", the text of the root mapping
\* and "\n};": a brace pair whatever the data holds, and name = {\n\n}; for
\* an empty root, the root of a NewMap given nil data included.
C4_Envelope ==
    /\ JSCall => ret.text \in {Envelope(t) : t \in Texts(ValueOfData(l.data))}
    /\ (call.op = "JS" /\ RootKeys = {}) =>
          ~ret.panic /\ ret.text = l.globalName \o " = {\n\n};"
    /\ (call.op = "NewMap" /\ call.data.nil /\ ~l.nil) => l.data = EmptyData

\* C4's case: JS on an empty root.
C4_Witness ==
    /\ JSCall
    /\ l.data = EmptyData
    /\ ret.text = "x = {\n\n};"

\* Whether no mapping inside x has two keys or more.
RECURSIVE SingleKeyed(_)
SingleKeyed(x) ==
    CASE x.kind = "interface" -> SingleKeyed(x.v)
      [] x.kind = "map" ->
            Cardinality(DOMAIN x.v) <= 1 /\ \A k \in DOMAIN x.v : SingleKeyed(x.v[k])
      [] x.kind = "slice" -> \A i \in DOMAIN x.v : SingleKeyed(x.v[i])
      [] x.kind = "struct" -> \A i \in DOMAIN x.v : SingleKeyed(x.v[i].val)
      [] OTHER -> TRUE

\* C7, as claimed: every text of JS is the envelope around the key-blocks
\* in one of their orders, each key-block being the same text in every run
\* whatever its key holds.
C7_BlocksIdentical ==
    JSCall =>
        \E p \in Arrangements(RootKeys) :
            ret.text \in {Envelope(t) :
                t \in Joined([i \in DOMAIN p |-> {CHOOSE b \in BlockTexts(p[i]) : TRUE}], 1)}

\* C7, amended: every text of JS is the envelope around the key-blocks in
\* one of their orders; a key-block is the same text in every run when its
\* key holds no mapping of two keys or more, and is otherwise one of the
\* texts the orders of the mappings inside it give.
C7_BlocksUpToNesting ==
    JSCall =>
        /\ \E p \in Arrangements(RootKeys) :
              ret.text \in {Envelope(t) :
                  t \in Joined([i \in DOMAIN p |-> BlockTexts(p[i])], 1)}
        /\ \A k \in RootKeys :
              SingleKeyed(l.data.m[k]) => Cardinality(BlockTexts(k)) = 1

\* C7's case: a root of two keys, one holding a mapping of two keys.
C7_Witness ==
    /\ JSCall
    /\ Cardinality(RootKeys) = 2
    /\ \E k \in RootKeys : l.data.m[k] = AssocArrayValue /\ Cardinality(BlockTexts(k)) = 2
    /\ \E k \in RootKeys : SingleKeyed(l.data.m[k])

---------------------------------------------------------------------------
(* The root as the calls leave it *)

\* The entries m with the entry of key set to val.
WithEntry(m, key, val) ==
    [k \in DOMAIN m \cup {key} |-> IF k = key THEN val ELSE m[k]]

\* The entries m without the entry of key.
WithoutEntry(m, key) == [k \in DOMAIN m \ {key} |-> m[k]]

C11_Step ==
    /\ (call'.op = "Add" /\ ret'.err = NoErr) =>
          l'.data.m = WithEntry(l.data.m, call'.key, call'.val)
    /\ (call'.op = "Add" /\ ret'.err # NoErr) => l'.data = l.data
    /\ (call'.op = "Delete" /\ ret'.err = NoErr) =>
          l'.data.m = WithoutEntry(l.data.m, call'.key)
    /\ (call'.op = "Delete" /\ ret'.err # NoErr) => l'.data = l.data
    /\ call'.op \in {"SetGlobalName", "GetGlobalName", "GetData", "JS"} =>
          l'.data = l.data
    /\ (call'.op = "JS" /\ ~ret'.panic) =>
          \E p \in Arrangements(RootKeys) :
              ret'.text \in {Envelope(t) :
                  t \in Joined([i \in DOMAIN p |-> BlockTexts(p[i])], 1)}

\* C11: JS renders the root as it is when called: a successful Add sets
\* the entry of its key to its value (overwriting, the keys staying unique)
\* and a successful Delete removes the entry of its key, neither changing
\* another entry; no other call changes the entries; and the text of JS
\* holds one key-block for each key the root then has, rendering the value
\* the key then holds.
C11_RootAtCallTime == [][C11_Step]_vars

\* C11's case: JS after two keys were added, one of them overwritten.
C11_Witness ==
    /\ JSCall
    /\ l.globalName = "x"
    /\ l.data.m = ("a" :> StrV("bar")) @@ ("b" :> IntV(1954))
    /\ ret.text \in { "x = {\n\"a\": [\n\"bar\",\n],\n\"b\": [\n1954,\n],\n\n};",
                      "x = {\n\"b\": [\n1954,\n],\n\"a\": [\n\"bar\",\n],\n\n};" }

---------------------------------------------------------------------------
(* JS as a read *)

\* What a call of JS gave: its text and whether it panicked.
Outcome(r) == [text |-> r.text, panic |-> r.panic]

Factorial(n) == IF n <= 1 THEN 1 ELSE n * (IF n = 2 THEN 1 ELSE IF n = 3 THEN 2 ELSE 6)

RECURSIVE ProductFrom(_, _)
ProductFrom(counts, i) ==
    IF i > Len(counts) THEN 1 ELSE counts[i] * ProductFrom(counts, i + 1)

\* The number of ways the mappings inside x can be iterated.
RECURSIVE OrderCount(_)
OrderCount(x) ==
    CASE x.kind = "interface" -> OrderCount(x.v)
      [] x.kind = "map" ->
            LET keys == CHOOSE p \in Arrangements(DOMAIN x.v) : TRUE
            IN  Factorial(Len(keys)) *
                ProductFrom([i \in DOMAIN keys |-> OrderCount(x.v[keys[i]])], 1)
      [] x.kind = "slice" ->
            ProductFrom([i \in DOMAIN x.v |-> OrderCount(x.v[i])], 1)
      [] x.kind = "struct" ->
            ProductFrom([i \in DOMAIN x.v |-> OrderCount(x.v[i].val)], 1)
      [] OTHER -> 1

C12_Step ==
    /\ call'.op = "JS" => l' = l
    /\ (call.op = "JS" /\ call'.op = "JS") =>
          /\ {Outcome(ret), Outcome(ret')} \subseteq JSOutcomes(l)
          /\ Cardinality(JSOutcomes(l)) <= OrderCount(ValueOfData(l.data))
          /\ OrderCount(ValueOfData(l.data)) = 1 => ret' = ret

\* C12: JS is a pure read: a call of JS changes neither the data nor the
\* global name; and two calls of JS with no other call between them give
\* outcomes of the one unchanged root, which has no more texts than its
\* mappings have iteration orders, so that the two calls give the same
\* text whenever they meet the same iteration order.
C12_PureRead == [][C12_Step]_vars

\* C12's case: JS returned on a root of two keys in the second of its two
\* iteration orders, the Map being what the two Adds had left.
C12_Witness ==
    /\ call.op = "JS"
    /\ l.globalName = "x"
    /\ l.data.m = ("a" :> IntV(1954)) @@ ("b" :> StrV("bar"))
    /\ ret.text = "x = {\n\"b\": [\n\"bar\",\n],\n\"a\": [\n1954,\n],\n\n};"

---------------------------------------------------------------------------
(* A record under a key of the root *)

IsRecord(x) == x.kind = "struct"

StartsWith(t, pre) == Len(t) >= Len(pre) /\ SubSeq(t, 1, Len(pre)) = pre

EndsWith(t, post) ==
    Len(t) >= Len(post) /\ SubSeq(t, Len(t) - Len(post) + 1, Len(t)) = post

\* The texts of the entry of key k that are delimited as an Object.
CurlyBlocks(k) ==
    {t \in BlockTexts(k) :
        StartsWith(t, "\"" \o k \o "\": {\n") /\ EndsWith(t, "\n},\n")}

\* C13: a struct stored as a value of the root is written as an Object:
\* in every text of JS the key-block of a key holding a struct is
\* delimited by "{" and "}", never by "[" and "]".
C13_RecordIsObject ==
    JSCall =>
        \E p \in Arrangements(RootKeys) :
            ret.text \in {Envelope(t) :
                t \in Joined([i \in DOMAIN p |->
                                 IF IsRecord(l.data.m[p[i]])
                                 THEN CurlyBlocks(p[i])
                                 ELSE BlockTexts(p[i])], 1)}

---------------------------------------------------------------------------
(* The record rule *)

\* The texts of one field: its name, a brace, the value, the closing brace.
FieldTexts(f) == {"\"" \o f.name \o "\": {\n" \o r \o "},\n" : r \in Texts(f.val)}

\* C14: a record is written field by field in declaration order, each as
\* "FieldName": {, a line break, the value's text and },\n, in braces
\* whatever the kind of the value (scalar, sequence, mapping or record);
\* a record with no field is the empty text.
C14_RecordRule ==
    /\ (ReflectCall /\ IsRecord(call.val)) =>
          ret.text \in Joined([i \in DOMAIN call.val.v |-> FieldTexts(call.val.v[i])], 1)
    /\ (ReflectCall /\ call.val = StructV(<<>>)) => ret.text = ""
    /\ (ReflectCall /\ call.val = PageValue) =>
          ret.text = "\"Title\": {\n\"home\",},\n\"Views\": {\n3,},\n"
    /\ (ReflectCall /\ call.val = StructV(<<Fld("A", SliceV(<<IntV(1)>>)),
                                            Fld("B", MapV("foo" :> StrV("bar")))>>)) =>
          ret.text = "\"A\": {\n[1,],\n},\n\"B\": {\n\"foo\":\"bar\",\n},\n"

\* C14's case: a record holding a record.
C14_Witness ==
    /\ ReflectCall
    /\ call.val = StructV(<<Fld("A", StructV(<<Fld("B", IntV(1))>>))>>)
    /\ ret.text = "\"A\": {\n\"B\": {\n1,},\n},\n"

---------------------------------------------------------------------------
(* The state after a failing call *)

C15_Step ==
    /\ (call'.op \in {"SetGlobalName", "Add", "Delete"} /\ ret'.err # NoErr) =>
          l' = l
    /\ (call.op = "SetGlobalName" /\ ret.err # NoErr /\ call'.op = "JS" /\ ~ret'.panic) =>
          /\ l.globalName # call.name
          /\ StartsWith(ret'.text, l.globalName \o " = {\n")

\* C15: a failing call changes nothing: after a SetGlobalName, an Add or a
\* Delete that returns an error the data and the global name are what they
\* were, a JS that follows a failing SetGlobalName still assigns to the
\* previous name, and a failing NewMap returns the nil Map with its error.
C15_UnchangedOnError ==
    /\ []((call.op = "NewMap" /\ ret.err # NoErr) => l = NilMap)
    /\ [][C15_Step]_vars

\* C15's case: JS on a Map holding data, whose name a failing
\* SetGlobalName has just been refused to replace.
C15_Witness ==
    /\ call.op = "SetGlobalName"
    /\ call.name = "do"
    /\ ret.err = ErrReservedKeyword
    /\ l.globalName = "x"
    /\ l.data = IntCaseData

---------------------------------------------------------------------------
(* JS called on a root of one key *)

\* Global names SetGlobalName accepts.
RootNames == {"x", "_local", "[a"}

RootKeyInputs == {"k", "k["}

\* The values under the key: those ReflectTarget is given on its own, and
\* strings holding a bracket or a brace.
RootValues == TargetInputs \cup {StrV("a[b"), StrV("}")}

InitRoot ==
    \E name \in RootNames, key \in RootKeyInputs, val \in RootValues :
        /\ l = NewMapResult(name, MkData(key :> val))
        /\ call = Call("NewMap", name, "", Invalid, MkData(key :> val))
        /\ ret = RetErr(SetGlobalNameErr(name))
        /\ stack = <<>>
        /\ buf = ""

NextRoot == JS

SpecRoot == InitRoot /\ [][NextRoot]_vars

---------------------------------------------------------------------------
(* Bracket balance *)

Openers == {"{", "["}
Closers == {"}", "]"}
CloserOf(c) == IF c = "{" THEN "}" ELSE "]"

NoBracket(s) == CharsOf(s) \cap (Openers \cup Closers) = {}

\* Whether x holds no nil and no bracket or brace in a key, a field name or
\* a string.
RECURSIVE Clean(_)
Clean(x) ==
    CASE x.kind = "invalid" -> FALSE
      [] x.kind = "interface" -> Clean(x.v)
      [] x.kind = "string" -> NoBracket(x.v)
      [] x.kind = "map" -> \A k \in DOMAIN x.v : NoBracket(k) /\ Clean(x.v[k])
      [] x.kind = "slice" -> \A i \in DOMAIN x.v : Clean(x.v[i])
      [] x.kind = "struct" ->
            \A i \in DOMAIN x.v : NoBracket(x.v[i].name) /\ Clean(x.v[i].val)
      [] OTHER -> TRUE

\* Whether the brackets and braces of t from the i-th character on close
\* the openers of opened, last opened first, and are well nested themselves.
RECURSIVE WellNestedFrom(_, _, _)
WellNestedFrom(t, i, opened) ==
    IF i > Len(t) THEN opened = <<>>
    ELSE LET c == CharAt(t, i)
         IN  IF c \in Openers THEN WellNestedFrom(t, i + 1, <<c>> \o opened)
             ELSE IF c \in Closers
                  THEN /\ opened # <<>>
                       /\ c = CloserOf(Head(opened))
                       /\ WellNestedFrom(t, i + 1, Tail(opened))
                  ELSE WellNestedFrom(t, i + 1, opened)

WellNested(t) == WellNestedFrom(t, 1, <<>>)

BracketPositions(t) == {i \in 1..Len(t) : CharAt(t, i) \in Openers \cup Closers}

Least(S) == CHOOSE i \in S : \A j \in S : i <= j
Greatest(S) == CHOOSE i \in S : \A j \in S : i >= j

\* Whether t is well nested inside one pair of braces: the brace JS writes
\* after the name and the one it writes before the semicolon.
EnvelopeEncloses(t) ==
    LET at    == BracketPositions(t)
        first == Least(at)
        last  == Greatest(at)
    IN  /\ at # {}
        /\ first < last
        /\ SubSeq(t, first - 3, first) = " = {"
        /\ SubSeq(t, last - 1, last + 1) = "\n};"
        /\ last + 1 = Len(t)
        /\ WellNested(SubSeq(t, first + 1, last - 1))

\* C17: for a root that holds no nil and no bracket or brace in its keys,
\* field names and strings, the text of JS is well nested: every "{" and
\* "[" is closed by its own closer, last opened first closed, no closer
\* comes without its opener, and the first opener and the last closer are
\* the braces of the envelope.
C17_WellNested ==
    (JSCall /\ Clean(ValueOfData(l.data))) =>
        WellNested(ret.text) /\ EnvelopeEncloses(ret.text)

\* The same for the Maps whose name is an identifier of the grammar.
BalancedUnderGrammar ==
    (JSCall /\ Clean(ValueOfData(l.data)) /\ MatchesGrammar(l.globalName)) =>
        WellNested(ret.text) /\ EnvelopeEncloses(ret.text)

\* A clean root of nested brackets rendered under a name of the grammar.
BalancedCase ==
    /\ JSCall
    /\ l.globalName = "x"
    /\ l.data = MkData("k" :> MultiArrayValue)
    /\ WellNested(ret.text)

---------------------------------------------------------------------------
(* JS run call by call: the recursion of ReflectTarget on the call stack *)

\* The frames the call stack has room for.
MaxStack == 8

\* What GetData() returns, held as a value: the root map itself, not a copy.
LiveRoot == [kind |-> "live", v |-> 0]

\* The value x as reflection meets it: the root map for the root map held
\* directly or behind an interface.
Live(x) ==
    IF x.kind = "live" THEN ValueOfData(l.data)
    ELSE IF x.kind = "interface" /\ x.v.kind = "live"
         THEN IfaceV(ValueOfData(l.data))
         ELSE x

\* The frame of Map.JS, below the frames of ReflectTarget.
JSFrame == [kind |-> "JS", v |-> 0]

\* A frame: the target of the call, the passes of its loop made so far, the
\* keys MapKeys gave, and what the loop writes when the inner call returns.
Frame(target, keys) == [target |-> target, i |-> 0, keys |-> keys, close |-> ""]

\* A mutation of the call: a map that is the root again is taken as visited
\* and empty.
FramesVisitedOnce(x) ==
    IF x.kind = "live" \/ (x.kind = "interface" /\ x.v.kind = "live")
    THEN {Frame(MapV(<<>>), <<>>)}
    ELSE IF x.kind = "map"
         THEN {Frame(x, keys) : keys \in KeyOrders(DOMAIN x.v)}
         ELSE {Frame(x, <<>>)}

\* The frames a call ReflectTarget(x, buf) can start with.
Frames(x) ==
    LET target == Live(x)
    IN  IF target.kind = "map"
        THEN {Frame(target, keys) : keys \in KeyOrders(DOMAIN target.v)}
        ELSE {Frame(target, <<>>)}

\* The frame f writes text and calls ReflectTarget on child; close is what
\* it writes once that call has returned.
Descend(f, text, child, close) ==
    /\ Len(stack) < MaxStack
    /\ \E g \in Frames(child) :
        stack' = <<g, [f EXCEPT !.i = f.i + 1, !.close = close]>> \o Tail(stack)
    /\ buf' = buf \o text
    /\ UNCHANGED <<l, call, ret>>

\* The frame on top writes text and returns.
Return(text) ==
    /\ stack' = Tail(stack)
    /\ buf' = buf \o text
    /\ UNCHANGED <<l, call, ret>>

\* The frame on top writes text and panics: the call of JS ends there.
Panic(text) ==
    /\ stack' = <<>>
    /\ buf' = buf \o text
    /\ ret' = Ret(NoErr, buf', TRUE, NilData)
    /\ UNCHANGED <<l, call>>

\* Map.JS writes the tail and returns the text.
JSReturn ==
    /\ stack' = <<>>
    /\ buf' = buf \o "\n};"
    /\ ret' = Ret(NoErr, buf', FALSE, NilData)
    /\ UNCHANGED <<l, call>>

\* One pass of the loop of case "map" in the frame f.
StepEntry(f) ==
    LET key == f.keys[f.i + 1]
        e   == Live(f.target.v[key])
    IN  IF e.kind = "map" \/ e.kind = "interface"
        THEN IF e.kind = "interface" /\ e.v.kind = "invalid"
             THEN Panic(f.close)   \* f.Elem().Type()
             ELSE Descend(f, f.close \o "\"" \o key \o "\": " \o EntryOpen(e) \o "\n",
                          e, "\n" \o EntryClose(e) \o ",\n")
        ELSE Descend(f, f.close \o "\"" \o key \o "\":", e, "\n")

\* Map.JS is called: the head of the buffer is written.
JSBegin ==
    /\ stack = <<>>
    /\ ~l.nil
    /\ stack' = <<Frame(JSFrame, <<>>)>>
    /\ buf' = l.globalName \o " = {\n"
    /\ call' = Call("JS", "", "", Invalid, NilData)
    /\ ret' = RetErr(NoErr)
    /\ UNCHANGED l

\* The frame on top of the stack runs up to its next call or its return.
JSStep ==
    /\ stack # <<>>
    /\ LET f == Head(stack)
           t == f.target
           n == IF t.kind = "map" THEN Len(f.keys)
                ELSE IF t.kind \in {"struct", "slice"} THEN Len(t.v) ELSE 1
       IN  CASE t.kind = "JS" ->
                    IF f.i < n THEN Descend(f, "", ValueOfData(l.data), "")
                    ELSE JSReturn
             [] t.kind = "invalid" -> Panic("")   \* target.Type()
             [] t.kind = "interface" ->
                    IF f.i < n THEN Descend(f, "", t.v, "") ELSE Return("")
             [] t.kind = "struct" ->
                    IF f.i < n
                    THEN Descend(f, f.close \o "\"" \o t.v[f.i + 1].name \o "\": {\n",
                                 t.v[f.i + 1].val, "},\n")
                    ELSE Return(f.close)
             [] t.kind = "map" ->
                    IF f.i < n THEN StepEntry(f) ELSE Return(f.close)
             [] t.kind = "slice" ->
                    IF f.i < n
                    THEN Descend(f, IF f.i = 0 THEN "[" ELSE "", t.v[f.i + 1], "")
                    ELSE Return((IF f.i = 0 THEN "[" ELSE "") \o "],\n")
             [] t.kind = "int" -> Return(ReflectInt(t.v))
             [] t.kind = "string" -> Return(ReflectString(t.v))
             [] t.kind = "bool" -> Return(ReflectBool(t.v))
             [] t.kind = "float64" -> Return(ReflectFloat(t.v))
             [] OTHER -> Return("")

RunKeys == {"a", "b"}

\* The values added: a scalar, a map, and the root map itself as GetData()
\* gives it, alone and inside a slice.
RunValues ==
    { IntV(7), MapV("foo" :> StrV("bar")), LiveRoot, SliceV(<<IfaceV(LiveRoot)>>) }

RunData ==
    { EmptyData, IntCaseData,
      MkData("arrayArray" :> MultiArrayValue),
      MkData("assocArray" :> AssocArrayValue),
      MkData("page" :> PageValue),
      MkData("nil" :> Invalid) }

InitRun ==
    \E data \in RunData :
        /\ l = NewMapResult("x", data)
        /\ call = Call("NewMap", "x", "", Invalid, data)
        /\ ret = RetErr(NoErr)
        /\ stack = <<>>
        /\ buf = ""

NextRun ==
    \/ Add(RunKeys, RunValues)
    \/ Delete(RunKeys)
    \/ JSBegin
    \/ JSStep

SpecRun == InitRun /\ [][NextRun]_vars

\* A call that has started goes on running.
SpecRunFair == SpecRun /\ WF_vars(JSStep)

---------------------------------------------------------------------------
(* Termination *)

Running == stack # <<>>

\* Whether x holds the root map.
RECURSIVE HoldsRoot(_)
HoldsRoot(x) ==
    CASE x.kind = "live" -> TRUE
      [] x.kind = "interface" -> HoldsRoot(x.v)
      [] x.kind = "map" -> \E k \in DOMAIN x.v : HoldsRoot(x.v[k])
      [] x.kind = "slice" -> \E i \in DOMAIN x.v : HoldsRoot(x.v[i])
      [] x.kind = "struct" -> \E i \in DOMAIN x.v : HoldsRoot(x.v[i].val)
      [] OTHER -> FALSE

RECURSIVE HoldsNil(_)
HoldsNil(x) ==
    CASE x.kind = "invalid" -> TRUE
      [] x.kind = "interface" -> HoldsNil(x.v)
      [] x.kind = "map" -> \E k \in DOMAIN x.v : HoldsNil(x.v[k])
      [] x.kind = "slice" -> \E i \in DOMAIN x.v : HoldsNil(x.v[i])
      [] x.kind = "struct" -> \E i \in DOMAIN x.v : HoldsNil(x.v[i].val)
      [] OTHER -> FALSE

Greater(a, b) == IF a >= b THEN a ELSE b

RECURSIVE GreatestFrom(_, _)
GreatestFrom(depths, i) ==
    IF i > Len(depths) THEN 0 ELSE Greater(depths[i], GreatestFrom(depths, i + 1))

\* The nesting depth of x: the values on its longest chain of containment,
\* an interface and what it holds counted as two.
RECURSIVE NestingDepth(_)
NestingDepth(x) ==
    CASE x.kind = "interface" -> 1 + NestingDepth(x.v)
      [] x.kind = "map" ->
            LET keys == CHOOSE p \in Arrangements(DOMAIN x.v) : TRUE
            IN  1 + GreatestFrom([i \in DOMAIN keys |-> NestingDepth(x.v[keys[i]])], 1)
      [] x.kind = "slice" ->
            1 + GreatestFrom([i \in DOMAIN x.v |-> NestingDepth(x.v[i])], 1)
      [] x.kind = "struct" ->
            1 + GreatestFrom([i \in DOMAIN x.v |-> NestingDepth(x.v[i].val)], 1)
      [] OTHER -> 1

Root == ValueOfData(l.data)

Acyclic == ~l.nil /\ ~HoldsRoot(Root)

Cyclic == ~l.nil /\ HoldsRoot(Root) /\ ~HoldsNil(Root)

\* C16: JS terminates on every acyclic root, the frames of ReflectTarget
\* on the stack never more than the nesting depth of the root, and what it
\* returns is what the root is translated to; on a root that holds itself,
\* directly or behind an interface, as after Add(k, GetData()), no step of
\* the call returns and the stack grows to whatever room it is given.
C16_Termination ==
    /\ []((Running /\ Acyclic) => Len(stack) - 1 <= NestingDepth(Root))
    /\ []((call.op = "JS" /\ ~Running /\ Acyclic) => Outcome(ret) \in JSOutcomes(l))
    /\ (Running /\ Acyclic) ~> ~Running
    /\ [][(Running /\ Cyclic) => Running']_vars
    /\ (Running /\ Cyclic) ~> (Len(stack) = MaxStack)

\* C16's case: JS after Add("a", GetData()), the stack full of the frames
\* of the root map met again and again.
C16_Witness ==
    /\ call.op = "JS"
    /\ l.data = MkData("a" :> LiveRoot)
    /\ Len(stack) = MaxStack
    /\ Cardinality({i \in DOMAIN stack : stack[i].target = Root}) >= 3

=============================================================================
